---- MODULE Spec2Model ----
(***************************************************************************)
(* Model of as::cache<T> (util/cache.h), as::math::inc_wrap / dec_wrap     *)
(* (util/math.h) and the measurement registry (measuring/measurement.h).   *)
(*                                                                         *)
(* A cache object is a record [storage, reserved, head_idx]: storage is    *)
(* the live elements of the std::vector _storage (slot i of the code is    *)
(* storage[i + 1]), reserved is what _storage.capacity() returns, head_idx *)
(* is _head_idx.  size_t arithmetic is modular, with the width scaled down *)
(* from 64 to SizeBits bits.                                               *)
(***************************************************************************)
EXTENDS Integers, Sequences, FiniteSets, TLC

\* ------------------------------------------------------------------ bounds
MaxCap == 3          \* largest capacity handed to the constructor
MaxInserts == 5      \* inserts into one cache since construction / clear()
MaxAge == 4          \* largest age handed to at() and operator[]
MaxStep == 1         \* largest step an iterator is advanced to by ++
ItCap == 2           \* largest capacity of the caches that iterators are taken of
ItInserts == 2       \* inserts into one such cache since construction / clear()
SizeBits == 8        \* width of size_t in the model
MaxRecords == 2      \* measurements of one type held or being recorded
MaxClock == 1        \* ticks of the clock
DurRecords == 2      \* measurements each thread of the durability test records
MaxThreshold == 12   \* largest small threshold handed to inc_wrap / dec_wrap

Values == {1, 2, 3}  \* element values (T = int in the tests)
Names == {"a", "b"}  \* measurement names (string literals, which outlive the
                     \* string_view keys the registry keeps of them)
Threads == {1, 2}    \* std::thread::id of the threads that call the registry
MainThread == 3      \* the thread that starts and joins the threads of a test
AllThreads == Threads \cup {MainThread}
RegValues == {1, 2}  \* recorded values
SizeMod == 2 ^ SizeBits

VARIABLES
  caches,    \* cache id -> [storage, reserved, head_idx]: the constructed caches
  hist,      \* ghost: cache id -> values inserted since construction / clear()
  cap0,      \* ghost: cache id -> the capacity given to the constructor
  cleared,   \* ghost: cache id -> clear() has been called on it
  call,      \* the last call made and what it returned (creating or stepping
             \* an iterator is recorded as "iterator", without its operands)
  crashed,   \* the process was terminated by undefined behaviour
  iters,     \* iterator id -> [container, offset, step], container 0 = none
  measurements,              \* type -> (measurement_lookup -> container)
  measured_for_each_thread,  \* type -> (name -> bool)
  now,       \* the clock that as::now() reads
  pc,        \* thread -> where the thread is in its registry call
  frame,     \* thread -> arguments and locals of its registry call
  result,    \* what the last completed registry call returned, and to whom
  recorded,  \* ghost: type -> name -> measurements stored since the last clear
  log,       \* ghost: type -> name -> what was stored since the last clear,
             \* in the order stored: [m, thread, thread_id] is measurement m
             \* stored by thread under the key of thread_id; started_split
             \* and split tell whether the name was measured for each thread
             \* when the call started and when it stored
  cache_size,   \* ghost: type -> name -> the size last given to set_cache_size
  cleared_all,  \* ghost: type -> clear_measurements<T>() has been called
  locks,        \* mutex -> the thread that holds it, 0 when it is free
  stamps        \* thread -> the clock readings the thread's function took
                \* before and after its last add_measurement call, and the
                \* value it recorded

cachevars == <<caches, hist, cap0, cleared, call, crashed, iters>>

regvars ==
  <<measurements, measured_for_each_thread, now, pc, frame, result, recorded,
    log, cache_size, cleared_all, locks, stamps>>

vars == <<cachevars, regvars>>

\* ------------------------------------------------------------ util/math.h
inc_wrap(val, threshold) ==
  LET v == (val + 1) % SizeMod
  IN  IF v >= threshold THEN 0 ELSE v

dec_wrap_below_one(val, threshold) ==
  IF val <= 1 THEN (threshold - 1) % SizeMod ELSE val - 1

dec_wrap(val, threshold) ==
  IF val <= 0 THEN (threshold - 1) % SizeMod ELSE val - 1

\* ----------------------------------------------------------- std::vector
\* reserve(n) on an empty vector: capacity() becomes n.
vector_reserve(n) == [storage |-> <<>>, reserved |-> n]

\* push_back reallocates (doubling) only when size() == capacity().
vector_push_back(k, v) ==
  [k EXCEPT !.storage = Append(@, v),
            !.reserved = IF Len(k.storage) < @ THEN @
                         ELSE IF @ = 0 THEN 1 ELSE 2 * @]

\* ----------------------------------------------------------- util/cache.h
cache(capacity) ==
  [storage |-> vector_reserve(capacity).storage,
   reserved |-> vector_reserve(capacity).reserved,
   head_idx |-> 0]

size(k) == Len(k.storage)

capacity(k) == k.reserved

is_full_late(k) == size(k) > capacity(k)

is_full(k) == size(k) = capacity(k)

\* next_element(): the slot to overwrite, and the cache with _head_idx advanced.
next_element_stuck(k) == [slot |-> k.head_idx, k |-> k]

next_element(k) ==
  [slot |-> k.head_idx,
   k |-> [k EXCEPT !.head_idx = inc_wrap(@, capacity(k))]]

youngest_index(k) == dec_wrap(k.head_idx, capacity(k))

oldest_index_wrap_by_capacity(k) == inc_wrap(youngest_index(k), capacity(k))

oldest_index(k) == inc_wrap(youngest_index(k), size(k))

\* Only evaluated for capacity >= 1 (the callers below guard the division).
index_from_age_forward(k, age) == age % capacity(k)

index_from_age(k, age) ==
  ((capacity(k) + youngest_index(k) - age) % SizeMod) % capacity(k)

\* _storage[i] is defined when i is a live element of the vector.
InRange(k, i) == i < size(k)

Slot(k, i) == k.storage[i + 1]

\* insert(), when it stays inside the vector.
insert(k, v) ==
  IF is_full(k)
  THEN LET ne == next_element(k)
       IN  [ne.k EXCEPT !.storage[ne.slot + 1] = v]
  ELSE LET p == vector_push_back(k, v)
       IN  [p EXCEPT !.head_idx = inc_wrap(@, capacity(p))]

\* insert() on a full cache writes through _storage[_head_idx]; with no live
\* element there (capacity 0) the write is out of bounds.
insert_in_bounds(k) == ~is_full(k) \/ InRange(k, next_element(k).slot)

clear_keep_head(k) == [k EXCEPT !.storage = <<>>]

clear(k) == [k EXCEPT !.storage = <<>>, !.head_idx = 0]

\* ------------------------------------------------------- results of calls
Ret(kind, val, seq) == [kind |-> kind, val |-> val, seq |-> seq]

NoRet == Ret("none", 0, <<>>)
OutOfRange == Ret("out_of_range", 0, <<>>)
Indeterminate == Ret("indeterminate", 0, <<>>)
Crash == Ret("crash", 0, <<>>)
BoolRet(b) == Ret(IF b THEN "true" ELSE "false", 0, <<>>)

Call(op, c, arg, ret) == [op |-> op, c |-> c, arg |-> arg, ret |-> ret]

\* _storage[i]: the element when i is live; otherwise undefined behaviour, a
\* read of memory that holds no element (an indeterminate value) or a fault.
ReadSlot(k, i) ==
  IF InRange(k, i) THEN {Ret("value", Slot(k, i), <<>>)}
  ELSE {Indeterminate, Crash}

at_in_range_off_by_one(k, idx) == idx <= size(k)

\* at(): the bounds check that guards the throw.
at_in_range(k, idx) == ~(idx >= size(k))

at(k, idx) ==
  IF ~at_in_range(k, idx) THEN {OutOfRange}
  ELSE IF capacity(k) = 0 THEN {Indeterminate, Crash}   \* % 0
  ELSE ReadSlot(k, index_from_age(k, idx))

\* operator[]: at() without the check.
subscript(k, idx) ==
  IF capacity(k) = 0 THEN {Indeterminate, Crash}        \* % 0
  ELSE ReadSlot(k, index_from_age(k, idx))

oldest(k) == ReadSlot(k, oldest_index(k))

youngest(k) == ReadSlot(k, youngest_index(k))

\* ------------------------------------------------------- cache::iterator
NoIter == [container |-> 0, offset |-> 0, step |-> 0]

iterator(container, offset, step) ==
  [container |-> container, offset |-> offset, step |-> step]

iter_inc(it) == [it EXCEPT !.step = (@ + 1) % SizeMod]

iter_dec(it) == [it EXCEPT !.step = (@ - 1) % SizeMod]

iter_ne_ignores_step(a, b) ==
  a.container # b.container \/ a.offset # b.offset

iter_ne(a, b) ==
  a.container # b.container \/ a.offset # b.offset \/ a.step # b.step

iter_eq(a, b) == ~iter_ne(a, b)

\* iterator::get_index(), evaluated for capacity >= 1.
get_index(k, it) ==
  ((capacity(k) + it.offset - it.step) % SizeMod) % capacity(k)

\* operator*: the element, 0 standing for an indeterminate one.
iter_deref(k, it) ==
  IF capacity(k) > 0 /\ InRange(k, get_index(k, it))
  THEN Slot(k, get_index(k, it)) ELSE 0

begin(c, k) == iterator(c, youngest_index(k), 0)

end_at_capacity(c, k) == iterator(c, youngest_index(k), capacity(k))

end(c, k) == iterator(c, youngest_index(k), size(k))

\* for (auto elem : cache): the elements visited from begin() until the
\* iterator equals end().  fuel cuts a walk that does not stop.
RECURSIVE Walk(_, _, _, _, _)
Walk(k, it, e, acc, fuel) ==
  IF ~iter_ne(it, e) THEN Ret("seq", 0, acc)
  ELSE IF fuel = 0 THEN Ret("diverges", 0, acc)
  ELSE Walk(k, iter_inc(it), e, Append(acc, iter_deref(k, it)), fuel - 1)

range_for(c, k) == Walk(k, begin(c, k), end(c, k), <<>>, MaxCap + MaxInserts + 2)

\* ------------------------------------------------ measuring/measurement.h
\* thread_id_all_threads: the default std::thread::id, which no thread has.
thread_id_all_threads == 0

measurement_epoch(timestamp, data) == [timestamp |-> 0, data |-> data]

measurement(timestamp, data) == [timestamp |-> timestamp, data |-> data]

measurement_lookup_name_only(thread_id, name) ==
  [thread_id |-> thread_id_all_threads, name |-> name]

measurement_lookup(thread_id, name) == [thread_id |-> thread_id, name |-> name]

EmptyMap == [x \in {} |-> 0]

\* The map after map[key] = value.
MapPut(map, key, value) ==
  [x \in DOMAIN map \cup {key} |-> IF x = key THEN value ELSE map[x]]

\* The map after evaluating map[key]: std::unordered_map::operator[] inserts
\* a value-initialised entry for a key that is absent.
MapIndex(map, key, default) ==
  IF key \in DOMAIN map THEN map ELSE MapPut(map, key, default)

\* measurement_container_t, a variant: value-initialised it holds its first
\* alternative, an empty std::vector.
VectorContainer(vec) == [variant |-> "vector", vec |-> vec, cache |-> cache(0)]

CacheContainer(k) == [variant |-> "cache", vec |-> <<>>, cache |-> k]

DefaultContainer == VectorContainer(<<>>)

insert_measurement_front(m, container) ==
  IF container.variant = "vector"
  THEN VectorContainer(<<m>> \o container.vec)
  ELSE CacheContainer(insert(container.cache, m))

\* insert_measurement(): push_back on a vector, insert() on a cache.
insert_measurement(m, container) ==
  IF container.variant = "vector"
  THEN VectorContainer(Append(container.vec, m))
  ELSE CacheContainer(insert(container.cache, m))

\* container_to_vector(): a copy of the vector; of a cache, its elements as
\* std::copy(begin(), end()) visits them.
container_to_vector(container) ==
  IF container.variant = "vector" THEN container.vec
  ELSE range_for(0, container.cache).seq

storage_add_measurement_overwrite(map, m, name, thread_id) ==
  MapPut(map, measurement_lookup(thread_id, name),
         insert_measurement(m, DefaultContainer))

\* measurement_storage::add_measurement(), under _measurements_lock.
storage_add_measurement(map, m, name, thread_id) ==
  LET lookup == measurement_lookup(thread_id, name)
      found == MapIndex(map, lookup, DefaultContainer)
  IN  MapPut(found, lookup, insert_measurement(m, found[lookup]))

get_copy_of_measurements_checked(map, name, thread_id) ==
  LET lookup == measurement_lookup(thread_id, name)
  IN  IF lookup \in DOMAIN map
      THEN [ret |-> container_to_vector(map[lookup]), threw |-> FALSE,
            measurements |-> map]
      ELSE [ret |-> <<>>, threw |-> TRUE, measurements |-> map]

\* measurement_storage::get_copy_of_measurements(), under _measurements_lock:
\* what it returns and the map it leaves.
get_copy_of_measurements(map, name, thread_id) ==
  LET lookup == measurement_lookup(thread_id, name)
      found == MapIndex(map, lookup, DefaultContainer)
  IN  [ret |-> container_to_vector(found[lookup]), threw |-> FALSE,
       measurements |-> found]

\* measurement_storage::get_copy_of_measurements_for_all_threads()
get_copy_of_measurements_for_all_threads(map, name) ==
  LET keys == {kv \in DOMAIN map : kv.name = name}
  IN  [id \in {kv.thread_id : kv \in keys} |->
         container_to_vector(map[measurement_lookup(id, name)])]

storage_clear_one_key(map) ==
  IF map = EmptyMap THEN map
  ELSE LET gone == CHOOSE kv \in DOMAIN map : TRUE
       IN  [kv \in DOMAIN map \ {gone} |-> map[kv]]

\* measurement_storage::clear()
storage_clear(map) == EmptyMap

\* measurement_storage::clear(name): std::remove_if over the unordered_map
\* has to move-assign its elements, which are pair<const Key, T>; the compiler
\* rejects the call, so no build has a clear(name) that removes anything.
storage_clear_by_name(map, name) == [ill_formed |-> TRUE, measurements |-> map]

storage_is_measured_for_each_thread_if_present(flags, name) ==
  LET found == MapIndex(flags, name, FALSE)
  IN  [ret |-> name \in DOMAIN found, flags |-> found]

storage_is_measured_for_each_thread_never(flags, name) ==
  [ret |-> FALSE, flags |-> MapIndex(flags, name, FALSE)]

\* measurement_storage::is_measured_for_each_thread(), under its lock: what
\* it returns and the flag map it leaves.
storage_is_measured_for_each_thread(flags, name) ==
  LET found == MapIndex(flags, name, FALSE)
  IN  [ret |-> found[name], flags |-> found]

set_measured_for_each_thread_toggle(flags, name) ==
  MapPut(flags, name, ~MapIndex(flags, name, FALSE)[name])

\* measurement_storage::set_measured_for_each_thread()
set_measured_for_each_thread(flags, name) == MapPut(flags, name, TRUE)

\* cache_size_infinite: std::numeric_limits<size_t>::max()
cache_size_infinite == SizeMod - 1

set_cache_size_bounded(map, name, cache_size_arg) ==
  MapPut(map, measurement_lookup(thread_id_all_threads, name),
         CacheContainer(cache(cache_size_arg)))

\* set_cache_size<T>(name, cache_size): the body is empty, the map is left as
\* it is.
set_cache_size(map, name, cache_size_arg) == map

\* The two mutexes of a measurement_storage.
Locks == {"_measurements_lock", "_measured_for_each_thread_lock"}

\* started_split and started_cleared are ghosts: when the call started, the
\* name was measured for each thread, and clear_measurements<T>() had been
\* called.
NoFrame ==
  [op |-> "none", type |-> "none", name |-> "none", value |-> 0,
   timestamp |-> 0, thread_id |-> thread_id_all_threads,
   started_split |-> FALSE, started_cleared |-> FALSE]

\* What a registry call returned: a list, a map of lists, a bool, nothing, or
\* the std::runtime_error it threw.
\* cleared_during is a ghost: the first clear_measurements<T>() was called
\* between the start of the call and its return.
Result(op, type, name, kind, list, map, flag) ==
  [thread |-> thread_id_all_threads, op |-> op, type |-> type, name |-> name,
   kind |-> kind, list |-> list, map |-> map, flag |-> flag,
   cleared_during |-> FALSE]

NoResult == Result("none", "none", "none", "none", <<>>, EmptyMap, FALSE)

\* get_measurement_storage<T>(): one storage per type, empty at first.
\* The locals of a thread's function that reads the clock around a call.
NoStamps == [at |-> "none", before |-> 0, after |-> 0, data |-> 0]

RegInit(types) ==
  /\ measurements = [t \in types |-> EmptyMap]
  /\ measured_for_each_thread = [t \in types |-> EmptyMap]
  /\ now = 0
  /\ pc = [th \in AllThreads |-> "idle"]
  /\ frame = [th \in AllThreads |-> NoFrame]
  /\ result = NoResult
  /\ recorded = [t \in types |-> [n \in Names |-> 0]]
  /\ log = [t \in types |-> [n \in Names |-> <<>>]]
  /\ cache_size = [t \in types |-> [n \in Names |-> cache_size_infinite]]
  /\ cleared_all = [t \in types |-> FALSE]
  /\ locks = [l \in Locks |-> 0]
  /\ stamps = [th \in AllThreads |-> NoStamps]

\* ---------------------------------------------------------------- actions
CacheIds == DOMAIN caches

IterIds == {1, 2}

Construct(ids, maxcap) ==
  \E caps \in [ids -> 0..maxcap] :
    /\ caches = [c \in ids |-> cache(caps[c])]
    /\ cap0 = caps
    /\ hist = [c \in ids |-> <<>>]
    /\ cleared = [c \in ids |-> FALSE]
    /\ call = Call("construct", 0, 0, NoRet)
    /\ crashed = FALSE
    /\ iters = [i \in IterIds |-> NoIter]

\* cache::insert(element).  On a full cache of capacity 0 the write goes
\* through _storage[0] of an empty vector: the process faults, or the write
\* lands outside the vector and only _head_idx is stepped.
InsertUpTo(c, v, bound) ==
  /\ ~crashed
  /\ Len(hist[c]) < bound
  /\ hist' = [hist EXCEPT ![c] = Append(@, v)]
  /\ IF insert_in_bounds(caches[c])
     THEN /\ caches' = [caches EXCEPT ![c] = insert(@, v)]
          /\ call' = Call("insert", c, v, NoRet)
          /\ crashed' = FALSE
     ELSE \E fault \in BOOLEAN :
          /\ caches' = IF fault THEN caches
                       ELSE [caches EXCEPT ![c] = next_element(@).k]
          /\ call' = Call("insert", c, v,
                          Ret("oob_write", next_element(caches[c]).slot, <<>>))
          /\ crashed' = fault
  /\ UNCHANGED <<cap0, cleared, iters>>
  /\ UNCHANGED regvars

Insert(c, v) == InsertUpTo(c, v, MaxInserts)

\* cache::clear(); the call record keeps the size the cache had.
ClearCall(c) ==
  /\ ~crashed
  /\ caches' = [caches EXCEPT ![c] = clear(@)]
  /\ hist' = [hist EXCEPT ![c] = <<>>]
  /\ call' = Call("clear", c, size(caches[c]), NoRet)
  /\ UNCHANGED <<cap0, crashed, iters>>
  /\ UNCHANGED regvars

Clear(c) == ClearCall(c) /\ cleared' = [cleared EXCEPT ![c] = TRUE]

\* A const call on cache c that returns one of the outcomes in rets.
Query(op, c, arg, rets) ==
  /\ ~crashed
  /\ \E r \in rets :
       /\ call' = Call(op, c, arg, r)
       /\ crashed' = (r = Crash)
  /\ UNCHANGED <<caches, hist, cap0, cleared, iters>>
  /\ UNCHANGED regvars

At(c, age) == Query("at", c, age, at(caches[c], age))

Subscript(c, age) == Query("subscript", c, age, subscript(caches[c], age))

Youngest(c) == Query("youngest", c, 0, youngest(caches[c]))

Oldest(c) == Query("oldest", c, 0, oldest(caches[c]))

RangeFor(c) == Query("range_for", c, 0, {range_for(c, caches[c])})

\* container_to_vector() of a container that holds cache c.
ContainerToVector(c) ==
  Query("container_to_vector", c, 0,
        {Ret("seq", 0, container_to_vector(CacheContainer(caches[c])))})

Init == Construct({1}, MaxCap) /\ RegInit({})

Next ==
  \/ \E c \in CacheIds, v \in Values : Insert(c, v)
  \/ \E c \in CacheIds : Clear(c)
  \/ \E c \in CacheIds, age \in 0..MaxAge : At(c, age)
  \/ \E c \in CacheIds, age \in 0..MaxAge : Subscript(c, age)
  \/ \E c \in CacheIds : Youngest(c)
  \/ \E c \in CacheIds : Oldest(c)
  \/ \E c \in CacheIds : RangeFor(c)
  \/ \E c \in CacheIds : ContainerToVector(c)

Spec == Init /\ [][Next]_vars

\* ----------------------------------------------------------------- claims
Min(a, b) == IF a <= b THEN a ELSE b

\* The last n entries of seq.
Last(seq, n) == SubSeq(seq, Len(seq) - n + 1, Len(seq))

Value(v) == Ret("value", v, <<>>)

\* The live slots walked from oldest_index() upwards, wrapping at size().
RetainedOldestFirst(k) ==
  [i \in 1..size(k) |-> Slot(k, (oldest_index(k) + i - 1) % size(k))]

\* C1 (ring invariant): a cache constructed with capacity c >= 1 that has
\* taken n >= c inserts since construction or the last clear() has size c,
\* and its elements read from oldest() to youngest() are the last c inserted
\* values in insertion order.
C1_RingInvariant ==
  \A c \in CacheIds :
    LET k == caches[c]
        n == Len(hist[c])
    IN  (cap0[c] >= 1 /\ n >= cap0[c]) =>
          /\ size(k) = cap0[c]
          /\ oldest_index(k) < size(k)
          /\ (oldest_index(k) + size(k) - 1) % size(k) = youngest_index(k)
          /\ oldest(k) = {Value(hist[c][n - cap0[c] + 1])}
          /\ youngest(k) = {Value(hist[c][n])}
          /\ RetainedOldestFirst(k) = Last(hist[c], cap0[c])

C1_Witness ==
  /\ call.op = "insert"
  /\ cap0[1] = 3
  /\ Len(hist[1]) = 5
  /\ hist[1][3] # hist[1][4]

\* C2 (age indexing): for every age below size(), at(age) and operator[](age)
\* return the value inserted age inserts before the most recent one, whether
\* the cache is partially filled or full.
C2_AgeIndexing ==
  \A c \in CacheIds :
    LET k == caches[c]
        n == Len(hist[c])
    IN  capacity(k) >= 1 =>
          /\ \A age \in 0..(size(k) - 1) :
               /\ at(k, age) = {Value(hist[c][n - age])}
               /\ subscript(k, age) = {Value(hist[c][n - age])}
          /\ (call.c = c /\ call.op \in {"at", "subscript"}
                /\ call.arg < size(k)) => call.ret = Value(hist[c][n - call.arg])

C2_Witness ==
  /\ call.op = "subscript"
  /\ call.arg = 1
  /\ cap0[1] = 2
  /\ Len(hist[1]) = 3
  /\ call.ret = Value(hist[1][2])
  /\ hist[1][2] # hist[1][3]

\* C3 (capacity zero), as claimed: a cache of capacity 0 is always full and
\* empty, and insert() on it is a no-op that touches no storage slot.
C3_CapacityZeroNoOp ==
  \A c \in CacheIds :
    cap0[c] = 0 =>
      /\ is_full(caches[c])
      /\ size(caches[c]) = 0
      /\ caches[c] = cache(0)
      /\ (call.op = "insert" /\ call.c = c) => (call.ret = NoRet /\ ~crashed)

\* C4 (checked access): in every state, at(age) with age >= size() throws
\* out_of_range and leaves the cache as it was.
C4_CheckedAccess ==
  [][\A c \in CacheIds, age \in 0..MaxAge :
       (At(c, age) /\ age >= size(caches[c])) =>
          /\ call'.ret = OutOfRange
          /\ caches' = caches
          /\ ~crashed']_vars

C4_Witness ==
  /\ call.op = "at"
  /\ call.ret = OutOfRange
  /\ call.arg = size(caches[1])
  /\ size(caches[1]) = 2
  /\ cap0[1] = 3
  /\ cleared[1]

\* C5 (size / capacity): capacity() is the constructor's capacity in every
\* state, size() is min(n, capacity) for n the inserts since construction or
\* the last clear(), and is_full() holds exactly when n >= capacity.
C5_SizeCapacity ==
  \A c \in CacheIds :
    LET k == caches[c]
        n == Len(hist[c])
    IN  /\ capacity(k) = cap0[c]
        /\ size(k) = Min(n, cap0[c])
        /\ size(k) <= capacity(k)
        /\ is_full(k) <=> (n >= cap0[c])

C5_Witness ==
  /\ cap0[1] = 2
  /\ Len(hist[1]) = 4
  /\ cleared[1]
  /\ is_full(caches[1])

\* C6 (iteration order): walking from begin() to end() visits size()
\* elements, at(0), at(1), ..., at(size() - 1): youngest to oldest.
C6_IterationOrder ==
  \A c \in CacheIds :
    LET k == caches[c]
        n == Len(hist[c])
        r == range_for(c, k)
    IN  capacity(k) >= 1 =>
          /\ r.kind = "seq"
          /\ Len(r.seq) = size(k)
          /\ \A i \in 1..Len(r.seq) :
               /\ at(k, i - 1) = {Value(r.seq[i])}
               /\ i <= n /\ r.seq[i] = hist[c][n - i + 1]
          /\ (call.op = "range_for" /\ call.c = c) => call.ret = r

C6_Witness ==
  /\ call.op = "range_for"
  /\ cap0[1] = 3
  /\ Len(hist[1]) = 4
  /\ Len(call.ret.seq) = 3
  /\ call.ret.seq[1] # call.ret.seq[2]

\* C7: on a non-empty cache youngest() is the slot of at(0) and oldest() the
\* slot of at(size() - 1); oldest() is the first inserted value until the
\* cache is full and moves on by one with every further insert.
C7_YoungestOldest ==
  \A c \in CacheIds :
    LET k == caches[c]
        n == Len(hist[c])
    IN  size(k) >= 1 =>
          /\ youngest_index(k) = index_from_age(k, 0)
          /\ oldest_index(k) = index_from_age(k, size(k) - 1)
          /\ youngest(k) = at(k, 0)
          /\ oldest(k) = at(k, size(k) - 1)
          /\ oldest(k) = {Value(hist[c][IF n <= capacity(k) THEN 1
                                        ELSE n - capacity(k) + 1])}
          /\ (call.op = "oldest" /\ call.c = c) => call.ret \in oldest(k)
          /\ (call.op = "youngest" /\ call.c = c) => call.ret = Value(hist[c][n])

C7_Witness ==
  /\ call.op = "oldest"
  /\ cap0[1] = 3
  /\ Len(hist[1]) = 2
  /\ call.ret = Value(hist[1][1])
  /\ hist[1][1] # hist[1][2]

\* The cache a fresh cache(capacity) becomes under the inserts of seq.
RECURSIVE FreshRun(_, _)
FreshRun(cap, seq) ==
  IF seq = <<>> THEN cache(cap)
  ELSE insert(FreshRun(cap, SubSeq(seq, 1, Len(seq) - 1)), seq[Len(seq)])

\* C8: clear() sets size() to 0, keeps capacity() and resets the cursor, and
\* the inserts made after it leave the cache as they leave a freshly
\* constructed cache of that capacity (so every accessor agrees).
C8_ClearIsFresh ==
  \A c \in CacheIds :
    LET k == caches[c]
    IN  /\ (call.op = "clear" /\ call.c = c) =>
             (size(k) = 0 /\ capacity(k) = cap0[c] /\ k.head_idx = 0)
        /\ (cleared[c] /\ cap0[c] = 0) => k = cache(0)
        /\ (cleared[c] /\ cap0[c] >= 1) =>
             LET f == FreshRun(cap0[c], hist[c])
             IN  /\ k = f
                 /\ size(k) = size(f)
                 /\ \A age \in 0..MaxAge : at(k, age) = at(f, age)
                 /\ youngest(k) = youngest(f)
                 /\ oldest(k) = oldest(f)
                 /\ range_for(c, k) = range_for(c, f)

C8_Witness ==
  /\ cleared[1]
  /\ cap0[1] = 2
  /\ Len(hist[1]) = 3
  /\ call.op = "at"
  /\ call.arg = 1

\* ------------------------------------------------ iterators over two caches
ItValues == {1}

\* iterator it = cache.begin()
ItBegin(i, c) ==
  /\ ~crashed
  /\ iters' = [iters EXCEPT ![i] = begin(c, caches[c])]
  /\ call' = Call("iterator", 0, 0, NoRet)
  /\ UNCHANGED <<caches, hist, cap0, cleared, crashed>>
  /\ UNCHANGED regvars

\* iterator it = cache.end()
ItEnd(i, c) ==
  /\ ~crashed
  /\ iters' = [iters EXCEPT ![i] = end(c, caches[c])]
  /\ call' = Call("iterator", 0, 0, NoRet)
  /\ UNCHANGED <<caches, hist, cap0, cleared, crashed>>
  /\ UNCHANGED regvars

\* ++it
ItInc(i) ==
  /\ ~crashed
  /\ iters[i] # NoIter
  /\ iters[i].step < MaxStep \/ iters[i].step = SizeMod - 1
  /\ iters' = [iters EXCEPT ![i] = iter_inc(@)]
  /\ call' = Call("iterator", 0, 0, NoRet)
  /\ UNCHANGED <<caches, hist, cap0, cleared, crashed>>
  /\ UNCHANGED regvars

\* --it (from step 0 the size_t step wraps to its largest value)
ItDec(i) ==
  /\ ~crashed
  /\ iters[i] # NoIter
  /\ iters[i].step # SizeMod - 1
  /\ iters' = [iters EXCEPT ![i] = iter_dec(@)]
  /\ call' = Call("iterator", 0, 0, NoRet)
  /\ UNCHANGED <<caches, hist, cap0, cleared, crashed>>
  /\ UNCHANGED regvars

\* a == b on two iterators that exist
ItCompare(i, j) ==
  /\ ~crashed
  /\ iters[i] # NoIter
  /\ iters[j] # NoIter
  /\ call' = Call("it_eq", i, j, BoolRet(iter_eq(iters[i], iters[j])))
  /\ UNCHANGED <<caches, hist, cap0, cleared, crashed, iters>>
  /\ UNCHANGED regvars

\* const_iterator::operator!= compares the three fields, as iterator's does.
const_iter_ne(a, b) ==
  a.container # b.container \/ a.offset # b.offset \/ a.step # b.step

\* const_iterator::operator== is `return !operator==(other);`: it calls
\* itself without a base case.  The recursion never produces a value: the
\* build either exhausts the stack or, with the call turned into a loop,
\* spins for ever.
const_iter_eq(a, b) == {Crash, Ret("diverges", 0, <<>>)}

\* a == b on two const_iterators that exist; the caller never gets control
\* back
ItConstCompare(i, j) ==
  /\ ~crashed
  /\ iters[i] # NoIter
  /\ iters[j] # NoIter
  /\ \E r \in const_iter_eq(iters[i], iters[j]) :
       call' = Call("const_it_eq", i, j, r)
  /\ crashed' = TRUE
  /\ UNCHANGED <<caches, hist, cap0, cleared, iters>>
  /\ UNCHANGED regvars

InitIter == Construct({1, 2}, ItCap) /\ RegInit({})

NextIter ==
  \/ \E c \in CacheIds, v \in ItValues : InsertUpTo(c, v, ItInserts)
  \/ \E c \in CacheIds : ClearCall(c) /\ UNCHANGED cleared
  \/ \E i \in IterIds, c \in CacheIds : ItBegin(i, c)
  \/ \E i \in IterIds, c \in CacheIds : ItEnd(i, c)
  \/ \E i \in IterIds : ItInc(i)
  \/ \E i \in IterIds : ItDec(i)
  \/ \E i \in IterIds, j \in IterIds : ItCompare(i, j)
  \/ \E i \in IterIds, j \in IterIds : ItConstCompare(i, j)

SpecIter == InitIter /\ [][NextIter]_vars

SameIterator(a, b) ==
  a.container = b.container /\ a.offset = b.offset /\ a.step = b.step

\* C9 (iterator equality): two iterators are equal exactly when they have the
\* same container, the same starting offset and the same step count; so
\* begin() == end() exactly on an empty cache, and iterators of different
\* containers are never equal.
C9_IteratorEquality ==
  /\ \A i \in IterIds, j \in IterIds :
       LET a == iters[i]
           b == iters[j]
       IN  (a # NoIter /\ b # NoIter) =>
             /\ iter_eq(a, b) <=> SameIterator(a, b)
             /\ (a.container # b.container) => ~iter_eq(a, b)
             /\ (call.op = "it_eq" /\ call.c = i /\ call.arg = j) =>
                  call.ret = BoolRet(SameIterator(a, b))
  /\ \A c \in CacheIds, d \in CacheIds :
       LET k == caches[c]
       IN  /\ iter_eq(begin(c, k), end(c, k)) <=> (size(k) = 0)
           /\ (c # d) => /\ ~iter_eq(begin(c, k), begin(d, caches[d]))
                         /\ ~iter_eq(end(c, k), end(d, caches[d]))

C9_Witness ==
  /\ call.op = "it_eq"
  /\ call.c = 1
  /\ call.arg = 2
  /\ call.ret = BoolRet(TRUE)
  /\ iters[1].container = 2
  /\ iters[1].step = 1
  /\ size(caches[2]) = 2
  /\ Len(hist[2]) = 2

\* C26 (const_iterator equality): a == b on two const_iterators returns true
\* exactly when they have the same container, the same starting offset and
\* the same step count, and false otherwise: the negation of a != b.
C26_ConstIteratorEquality ==
  \A i \in IterIds, j \in IterIds :
    (call.op = "const_it_eq" /\ call.c = i /\ call.arg = j) =>
      /\ call.ret = BoolRet(SameIterator(iters[i], iters[j]))
      /\ call.ret = BoolRet(~const_iter_ne(iters[i], iters[j]))
      /\ ~crashed

\* --------------------------------------------------- registry: the calls
RegTypes == DOMAIN measurements

ThreadIds == Threads \cup {thread_id_all_threads}

RECURSIVE SumOver(_, _)
SumOver(set, f) ==
  IF set = {} THEN 0
  ELSE LET x == CHOOSE y \in set : TRUE
       IN  f[x] + SumOver(set \ {x}, f)

\* The name is measured for each thread: its flag is present and set.
IsSplit(t, name) ==
  /\ name \in DOMAIN measured_for_each_thread[t]
  /\ measured_for_each_thread[t][name]

Recording(t) ==
  {th \in AllThreads : frame[th].op = "record" /\ frame[th].type = t}

Idle(th) == ~crashed /\ pc[th] = "idle"

Return(th, r) ==
  /\ pc' = [pc EXCEPT ![th] = "idle"]
  /\ frame' = [frame EXCEPT ![th] = NoFrame]
  /\ result' =
       [r EXCEPT !.thread = th,
                 !.cleared_during =
                    /\ frame[th].op # "none"
                    /\ cleared_all[frame[th].type] # frame[th].started_cleared]

Goto(th, label, f) ==
  /\ pc' = [pc EXCEPT ![th] = label]
  /\ frame' = [frame EXCEPT ![th] =
                 IF frame[th].op = "none"
                 THEN [f EXCEPT !.started_cleared = cleared_all[f.type]]
                 ELSE f]
  /\ result' = result

\* The clock moves on.
Tick ==
  /\ now < MaxClock
  /\ now' = now + 1
  /\ UNCHANGED <<measurements, measured_for_each_thread, pc, frame, result,
                 recorded, log, cache_size, cleared_all, locks, stamps>>
  /\ UNCHANGED cachevars

\* add_measurement<T>(name, value): auto timestamp = now();
\* room bounds the number of calls made.
RecordStartIf(th, t, name, v, room) ==
  /\ Idle(th)
  /\ room
  /\ Goto(th, "record_flag",
          [NoFrame EXCEPT !.op = "record", !.type = t, !.name = name,
                          !.value = v, !.timestamp = now,
                          !.started_split = IsSplit(t, name)])
  /\ UNCHANGED <<measurements, measured_for_each_thread, now, recorded>>
  /\ UNCHANGED <<log, cache_size, cleared_all, locks, stamps>>
  /\ UNCHANGED cachevars

RecordStart(th, t, name, v) ==
  RecordStartIf(th, t, name, v,
    SumOver(Names, recorded[t]) + Cardinality(Recording(t)) < MaxRecords)

RecordFlagAllThreads(th) ==
  /\ ~crashed
  /\ pc[th] = "record_flag"
  /\ LET f == frame[th]
         q == storage_is_measured_for_each_thread(
                measured_for_each_thread[f.type], f.name)
     IN  /\ measured_for_each_thread' =
               [measured_for_each_thread EXCEPT ![f.type] = q.flags]
         /\ Goto(th, "record_store",
                 [f EXCEPT !.thread_id = thread_id_all_threads])
  /\ UNCHANGED <<measurements, now, recorded>>
  /\ UNCHANGED <<log, cache_size, cleared_all, locks, stamps>>
  /\ UNCHANGED cachevars

\* ... thread_id = is_measured_for_each_thread<T>(name) ? get_id() : all
RecordFlag(th) ==
  /\ ~crashed
  /\ pc[th] = "record_flag"
  /\ LET f == frame[th]
         q == storage_is_measured_for_each_thread(
                measured_for_each_thread[f.type], f.name)
     IN  /\ measured_for_each_thread' =
               [measured_for_each_thread EXCEPT ![f.type] = q.flags]
         /\ Goto(th, "record_store",
                 [f EXCEPT !.thread_id =
                     IF q.ret THEN th ELSE thread_id_all_threads])
  /\ UNCHANGED <<measurements, now, recorded>>
  /\ UNCHANGED <<log, cache_size, cleared_all, locks, stamps>>
  /\ UNCHANGED cachevars

\* ... storage.add_measurement(measurement<T>{timestamp, value}, name, thread_id)
RecordStore(th) ==
  /\ ~crashed
  /\ pc[th] = "record_store"
  /\ LET f == frame[th]
     IN  /\ measurements' =
               [measurements EXCEPT ![f.type] =
                  storage_add_measurement(@, measurement(f.timestamp, f.value),
                                          f.name, f.thread_id)]
         /\ recorded' = [recorded EXCEPT ![f.type][f.name] = @ + 1]
         /\ log' = [log EXCEPT ![f.type][f.name] =
                      Append(@, [m |-> measurement(f.timestamp, f.value),
                                 thread |-> th, thread_id |-> f.thread_id,
                                 started_split |-> f.started_split,
                                 split |-> IsSplit(f.type, f.name)])]
         /\ Return(th, Result("record", f.type, f.name, "none", <<>>,
                              EmptyMap, FALSE))
  /\ UNCHANGED <<measured_for_each_thread, now, cache_size, cleared_all,
                 locks, stamps>>
  /\ UNCHANGED cachevars

\* get_measurements<T>(name): throws if the name is measured for each thread
FetchFlag(th, t, name) ==
  /\ Idle(th)
  /\ LET q == storage_is_measured_for_each_thread(
                measured_for_each_thread[t], name)
     IN  /\ measured_for_each_thread' =
               [measured_for_each_thread EXCEPT ![t] = q.flags]
         /\ IF q.ret
            THEN Return(th, Result("fetch", t, name, "error", <<>>,
                                   EmptyMap, FALSE))
            ELSE Goto(th, "fetch_copy",
                      [NoFrame EXCEPT !.op = "fetch", !.type = t,
                                      !.name = name])
  /\ UNCHANGED <<measurements, now, recorded>>
  /\ UNCHANGED <<log, cache_size, cleared_all, locks, stamps>>
  /\ UNCHANGED cachevars

\* ... return get_measurement_storage<T>().get_copy_of_measurements(name)
FetchCopy(th) ==
  /\ ~crashed
  /\ pc[th] = "fetch_copy"
  /\ LET f == frame[th]
         q == get_copy_of_measurements(measurements[f.type], f.name,
                                       thread_id_all_threads)
     IN  /\ measurements' = [measurements EXCEPT ![f.type] = q.measurements]
         /\ Return(th, Result("fetch", f.type, f.name,
                              IF q.threw THEN "error" ELSE "list", q.ret,
                              EmptyMap, FALSE))
  /\ UNCHANGED <<measured_for_each_thread, now, recorded>>
  /\ UNCHANGED <<log, cache_size, cleared_all, locks, stamps>>
  /\ UNCHANGED cachevars

\* get_measurements_for_thread<T>(name, thread_id): throws unless the name is
\* measured for each thread
FetchForThreadFlag(th, t, name, id) ==
  /\ Idle(th)
  /\ LET q == storage_is_measured_for_each_thread(
                measured_for_each_thread[t], name)
     IN  /\ measured_for_each_thread' =
               [measured_for_each_thread EXCEPT ![t] = q.flags]
         /\ IF ~q.ret
            THEN Return(th, Result("fetch_for_thread", t, name, "error", <<>>,
                                   EmptyMap, FALSE))
            ELSE Goto(th, "fetch_for_thread_copy",
                      [NoFrame EXCEPT !.op = "fetch_for_thread", !.type = t,
                                      !.name = name, !.thread_id = id])
  /\ UNCHANGED <<measurements, now, recorded>>
  /\ UNCHANGED <<log, cache_size, cleared_all, locks, stamps>>
  /\ UNCHANGED cachevars

\* ... return storage.get_copy_of_measurements(name, thread_id)
FetchForThreadCopy(th) ==
  /\ ~crashed
  /\ pc[th] = "fetch_for_thread_copy"
  /\ LET f == frame[th]
         q == get_copy_of_measurements(measurements[f.type], f.name,
                                       f.thread_id)
     IN  /\ measurements' = [measurements EXCEPT ![f.type] = q.measurements]
         /\ Return(th, Result("fetch_for_thread", f.type, f.name,
                              IF q.threw THEN "error" ELSE "list", q.ret,
                              EmptyMap, FALSE))
  /\ UNCHANGED <<measured_for_each_thread, now, recorded>>
  /\ UNCHANGED <<log, cache_size, cleared_all, locks, stamps>>
  /\ UNCHANGED cachevars

\* get_measurements_for_all_threads<T>(name): throws unless the name is
\* measured for each thread
FetchForAllThreadsFlag(th, t, name) ==
  /\ Idle(th)
  /\ LET q == storage_is_measured_for_each_thread(
                measured_for_each_thread[t], name)
     IN  /\ measured_for_each_thread' =
               [measured_for_each_thread EXCEPT ![t] = q.flags]
         /\ IF ~q.ret
            THEN Return(th, Result("fetch_for_all_threads", t, name, "error",
                                   <<>>, EmptyMap, FALSE))
            ELSE Goto(th, "fetch_for_all_threads_copy",
                      [NoFrame EXCEPT !.op = "fetch_for_all_threads",
                                      !.type = t, !.name = name])
  /\ UNCHANGED <<measurements, now, recorded>>
  /\ UNCHANGED <<log, cache_size, cleared_all, locks, stamps>>
  /\ UNCHANGED cachevars

\* ... return storage.get_copy_of_measurements_for_all_threads(name)
FetchForAllThreadsCopy(th) ==
  /\ ~crashed
  /\ pc[th] = "fetch_for_all_threads_copy"
  /\ LET f == frame[th]
     IN  Return(th, Result("fetch_for_all_threads", f.type, f.name, "map",
                           <<>>,
                           get_copy_of_measurements_for_all_threads(
                             measurements[f.type], f.name),
                           FALSE))
  /\ UNCHANGED <<measurements, measured_for_each_thread, now, recorded>>
  /\ UNCHANGED <<log, cache_size, cleared_all, locks, stamps>>
  /\ UNCHANGED cachevars

ClearAllTypes(th, t) ==
  /\ Idle(th)
  /\ measurements' = [u \in RegTypes |-> storage_clear(measurements[u])]
  /\ recorded' = [recorded EXCEPT ![t] = [n \in Names |-> 0]]
  /\ log' = [log EXCEPT ![t] = [n \in Names |-> <<>>]]
  /\ cleared_all' = [cleared_all EXCEPT ![t] = TRUE]
  /\ Return(th, Result("clear", t, "none", "none", <<>>, EmptyMap, FALSE))
  /\ UNCHANGED <<measured_for_each_thread, now, cache_size, locks, stamps>>
  /\ UNCHANGED cachevars

\* clear_measurements<T>()
ClearAll(th, t) ==
  /\ Idle(th)
  /\ measurements' = [measurements EXCEPT ![t] = storage_clear(@)]
  /\ recorded' = [recorded EXCEPT ![t] = [n \in Names |-> 0]]
  /\ log' = [log EXCEPT ![t] = [n \in Names |-> <<>>]]
  /\ cleared_all' = [cleared_all EXCEPT ![t] = TRUE]
  /\ Return(th, Result("clear", t, "none", "none", <<>>, EmptyMap, FALSE))
  /\ UNCHANGED <<measured_for_each_thread, now, cache_size, locks, stamps>>
  /\ UNCHANGED cachevars

\* clear_measurements<T>(name)
ClearByName(th, t, name) ==
  /\ Idle(th)
  /\ LET q == storage_clear_by_name(measurements[t], name)
     IN  /\ measurements' = [measurements EXCEPT ![t] = q.measurements]
         /\ Return(th, Result("clear_by_name", t, name,
                              IF q.ill_formed THEN "ill_formed" ELSE "none",
                              <<>>, EmptyMap, FALSE))
  /\ UNCHANGED <<measured_for_each_thread, now, recorded, log, cache_size,
                 cleared_all, locks, stamps>>
  /\ UNCHANGED cachevars

\* set_cache_size<T>(name, cache_size)
SetCacheSize(th, t, name, k) ==
  /\ Idle(th)
  /\ measurements' = [measurements EXCEPT ![t] = set_cache_size(@, name, k)]
  /\ cache_size' = [cache_size EXCEPT ![t][name] = k]
  /\ Return(th, Result("set_cache_size", t, name, "none", <<>>, EmptyMap,
                       FALSE))
  /\ UNCHANGED <<measured_for_each_thread, now, recorded, log, cleared_all,
                 locks, stamps>>
  /\ UNCHANGED cachevars

\* measure_for_each_thread<T>(name)
MarkThreadSplit(th, t, name) ==
  /\ Idle(th)
  /\ measured_for_each_thread' =
       [measured_for_each_thread EXCEPT ![t] =
          set_measured_for_each_thread(@, name)]
  /\ Return(th, Result("measure_for_each_thread", t, name, "none", <<>>,
                       EmptyMap, FALSE))
  /\ UNCHANGED <<measurements, now, recorded>>
  /\ UNCHANGED <<log, cache_size, cleared_all, locks, stamps>>
  /\ UNCHANGED cachevars

\* is_measured_for_each_thread<T>(name)
IsThreadSplit(th, t, name) ==
  /\ Idle(th)
  /\ LET q == storage_is_measured_for_each_thread(
                measured_for_each_thread[t], name)
     IN  /\ measured_for_each_thread' =
               [measured_for_each_thread EXCEPT ![t] = q.flags]
         /\ Return(th, Result("is_measured_for_each_thread", t, name, "bool",
                              <<>>, EmptyMap, q.ret))
  /\ UNCHANGED <<measurements, now, recorded>>
  /\ UNCHANGED <<log, cache_size, cleared_all, locks, stamps>>
  /\ UNCHANGED cachevars

InitReg == Construct({}, 0) /\ RegInit({"int"})

\* The sizes handed to set_cache_size.
CacheSizes == {1, cache_size_infinite}

\* The registry calls that the threads in callers make with these arguments.
RegCalls(callers, names, values) ==
  \/ \E th \in callers, t \in RegTypes, name \in names, v \in values :
       RecordStart(th, t, name, v)
  \/ \E th \in callers : RecordFlag(th)
  \/ \E th \in callers : RecordStore(th)
  \/ \E th \in callers, t \in RegTypes, name \in names : FetchFlag(th, t, name)
  \/ \E th \in callers : FetchCopy(th)
  \/ \E th \in callers, t \in RegTypes, name \in names, id \in ThreadIds :
       FetchForThreadFlag(th, t, name, id)
  \/ \E th \in callers : FetchForThreadCopy(th)
  \/ \E th \in callers, t \in RegTypes, name \in names :
       FetchForAllThreadsFlag(th, t, name)
  \/ \E th \in callers : FetchForAllThreadsCopy(th)
  \/ \E th \in callers, t \in RegTypes : ClearAll(th, t)
  \/ \E th \in callers, t \in RegTypes, name \in names :
       MarkThreadSplit(th, t, name)
  \/ \E th \in callers, t \in RegTypes, name \in names :
       IsThreadSplit(th, t, name)
  \/ \E th \in callers, t \in RegTypes, name \in names :
       ClearByName(th, t, name)

\* One thread calls the registry of one type.
NextReg == RegCalls({1}, Names, RegValues)

SpecReg == InitReg /\ [][NextReg]_vars

\* One thread calls the registry of one type under one name, set_cache_size
\* included, and marks and queries the other names.
NextCap ==
  \/ RegCalls({1}, {"a"}, RegValues)
  \/ \E t \in RegTypes, k \in CacheSizes : SetCacheSize(1, t, "a", k)
  \/ \E t \in RegTypes, name \in Names \ {"a"} : MarkThreadSplit(1, t, name)
  \/ \E t \in RegTypes, name \in Names \ {"a"} : IsThreadSplit(1, t, name)

SpecCap == InitReg /\ [][NextCap]_vars

\* C10 (unregistered name): get_measurements of a name that is not measured
\* for each thread and under which nothing was recorded (ever, or since the
\* last clear) returns an empty list and throws nothing.
C10_UnregisteredName ==
  \A t \in RegTypes, name \in Names :
    (/\ result.op = "fetch"
     /\ result.type = t
     /\ result.name = name
     /\ ~IsSplit(t, name)
     /\ recorded[t][name] = 0) =>
       (result.kind = "list" /\ result.list = <<>>)

C10_Witness ==
  /\ result.op = "fetch"
  /\ result.name = "a"
  /\ result.kind = "list"
  /\ result.list = <<>>
  /\ ~IsSplit("int", "a")
  /\ recorded["int"]["a"] = 0
  /\ recorded["int"]["b"] = 2
  /\ measurement_lookup(thread_id_all_threads, "b") \in DOMAIN measurements["int"]

\* The measurements stored under the name since the last clear, in the order
\* stored.
Stored(t, name) == [i \in 1..Len(log[t][name]) |-> log[t][name][i].m]

\* The key of the name in the scope of thread_id holds a std::vector.
IsVector(t, name, thread_id) ==
  /\ measurement_lookup(thread_id, name) \in DOMAIN measurements[t]
  /\ measurements[t][measurement_lookup(thread_id, name)].variant = "vector"

\* C11 (fetch of an unbounded log): for a name that is not measured for each
\* thread and whose container is a std::vector, get_measurements(name) called
\* by a single thread returns exactly the measurements recorded under that
\* name since the last clear, one per add_measurement call, first recorded
\* first, and nothing that was recorded under another name.
C11_FetchUnboundedLog ==
  \A t \in RegTypes, name \in Names :
    (/\ result.op = "fetch"
     /\ result.type = t
     /\ result.name = name
     /\ ~IsSplit(t, name)
     /\ IsVector(t, name, thread_id_all_threads)) =>
       (result.kind = "list" /\ result.list = Stored(t, name))

C11_Witness ==
  /\ result.op = "fetch"
  /\ result.name = "a"
  /\ result.kind = "list"
  /\ result.list = <<measurement(0, 2), measurement(0, 1)>>
  /\ cleared_all["int"]
  /\ ~IsSplit("int", "a")
  /\ IsVector("int", "a", thread_id_all_threads)

\* C12 (mode mismatch): get_measurements(name) throws exactly when the name is
\* measured for each thread at the call and returns a list otherwise;
\* get_measurements_for_thread(name, id) and
\* get_measurements_for_all_threads(name) throw exactly when the name is not
\* measured for each thread, whatever the thread id and also for a name never
\* seen, and return their list or map otherwise.
C12_ModeMismatch ==
  \A t \in RegTypes, name \in Names :
    (result.type = t /\ result.name = name) =>
      /\ result.op = "fetch" =>
            /\ result.kind \in {"list", "error"}
            /\ result.kind = "error" <=> IsSplit(t, name)
      /\ result.op = "fetch_for_thread" =>
            /\ result.kind \in {"list", "error"}
            /\ result.kind = "error" <=> ~IsSplit(t, name)
      /\ result.op = "fetch_for_all_threads" =>
            /\ result.kind \in {"map", "error"}
            /\ result.kind = "error" <=> ~IsSplit(t, name)

C12_Witness ==
  /\ result.op = "fetch_for_thread"
  /\ result.name = "b"
  /\ result.kind = "error"
  /\ ~IsSplit("int", "b")
  /\ IsSplit("int", "a")
  /\ log["int"]["b"] = <<>>
  /\ Len(log["int"]["a"]) = 2

\* C13 (one-way thread split): a name that is measured for each thread stays
\* so in every later state, whatever call follows (add_measurement, the
\* get_measurements calls, clear_measurements with and without a name,
\* set_cache_size, measure_for_each_thread on any name): no step takes the
\* flag of a name from true back to false or removes it.
C13_OneWaySplit ==
  [][\A t \in RegTypes, name \in Names :
       IsSplit(t, name) => IsSplit(t, name)']_vars

C13_Witness ==
  /\ result.op = "is_measured_for_each_thread"
  /\ result.name = "a"
  /\ result.kind = "bool"
  /\ result.flag
  /\ IsSplit("int", "a")
  /\ cleared_all["int"]
  /\ cache_size["int"]["a"] = 1
  /\ "b" \in DOMAIN measured_for_each_thread["int"]

\* The thread ids under which add_measurement stored a measurement of the
\* name since the last clear.
SplitRecorders(t, name) ==
  {log[t][name][i].thread_id : i \in 1..Len(log[t][name])}
    \ {thread_id_all_threads}

\* The measurements that the thread with this id stored under its own id
\* since the last clear, in the order stored; none for thread_id_all_threads,
\* which is no thread's id.
RecordedBy(t, name, id) ==
  LET es == SelectSeq(log[t][name],
                      LAMBDA e : e.thread = id /\ e.thread_id = id)
  IN  [i \in 1..Len(es) |-> es[i].m]

\* C14 (keys of the per-thread map): for a name measured for each thread,
\* get_measurements_for_all_threads(name) returns a map whose keys are
\* exactly the ids of the threads that recorded under the name since the last
\* clear, whatever get_measurements, get_measurements_for_thread or earlier
\* add_measurement calls were made.
C14_AllThreadsKeys ==
  \A t \in RegTypes, name \in Names :
    (/\ result.op = "fetch_for_all_threads"
     /\ result.type = t
     /\ result.name = name
     /\ result.kind = "map") =>
       DOMAIN result.map = SplitRecorders(t, name)

\* C15 (stranded data): what was recorded under a name before
\* measure_for_each_thread(name), under thread_id_all_threads, is returned
\* neither by get_measurements_for_thread nor inside the map of
\* get_measurements_for_all_threads: each list they return is what one
\* thread recorded under its own id.
C15_StrandedPreSwitch ==
  \A t \in RegTypes, name \in Names :
    (result.type = t /\ result.name = name) =>
      /\ (result.op = "fetch_for_all_threads" /\ result.kind = "map") =>
            \A id \in DOMAIN result.map :
              result.map[id] = RecordedBy(t, name, id)
      /\ (result.op = "fetch_for_thread" /\ result.kind = "list") =>
            \E id \in ThreadIds : result.list = RecordedBy(t, name, id)

\* C17 (set_cache_size): once set_cache_size(name, k) was called with a finite
\* k, get_measurements(name) returns exactly the min(n, k) most recently
\* recorded measurements, n being the number recorded under the name before
\* and after that call.
C17_SetCapacity ==
  \A t \in RegTypes, name \in Names :
    (/\ result.op = "fetch"
     /\ result.type = t
     /\ result.name = name
     /\ result.kind = "list"
     /\ cache_size[t][name] # cache_size_infinite) =>
       result.list =
         Last(Stored(t, name), Min(Len(Stored(t, name)), cache_size[t][name]))

C19_ClearByName ==
  \A t \in RegTypes, name \in Names :
    (/\ result.op = "clear_by_name"
     /\ result.type = t
     /\ result.name = name) =>
       \A kv \in DOMAIN measurements[t] : kv.name # name

\* C20 (clear all): clear_measurements<T>() drops every key of the type, and
\* from then until something is recorded again get_measurements returns an
\* empty list and get_measurements_for_all_threads an empty map.
C20_ClearAll ==
  \A t \in RegTypes :
    (cleared_all[t] /\ \A name \in Names : log[t][name] = <<>>) =>
      /\ (result.op = "clear" /\ result.type = t) =>
            measurements[t] = EmptyMap
      /\ (result.op = "fetch" /\ result.type = t /\ result.kind = "list") =>
            result.list = <<>>
      /\ (/\ result.op = "fetch_for_all_threads"
          /\ result.type = t
          /\ result.kind = "map") =>
            result.map = EmptyMap

\* ------------------------------- registry: threads that record and terminate
\* TEST(measurement, thread_local_primitive_type): the main thread marks the
\* name, each started thread records DurRecords values, reads its own list
\* and ends; the main thread joins them all and reads the map.
DurName == "a"

\* The number of measurements the thread has stored under the name.
CountBy(th) ==
  Len(SelectSeq(log["int"][DurName], LAMBDA e : e.thread = th))

Terminated(th) == pc[th] = "terminated"

DurMark == ~IsSplit("int", DurName) /\ MarkThreadSplit(MainThread, "int", DurName)

DurRecord(th, v) ==
  /\ IsSplit("int", DurName)
  /\ RecordStartIf(th, "int", DurName, v, CountBy(th) < DurRecords)

DurFetchOwn(th) ==
  /\ CountBy(th) = DurRecords
  /\ FetchForThreadFlag(th, "int", DurName, th)

\* The thread function returns.
Terminate(th) ==
  /\ Idle(th)
  /\ CountBy(th) = DurRecords
  /\ pc' = [pc EXCEPT ![th] = "terminated"]
  /\ UNCHANGED <<measurements, measured_for_each_thread, now, frame, result,
                 recorded, log, cache_size, cleared_all, locks, stamps>>
  /\ UNCHANGED cachevars

\* for (auto& t : threads) t.join(); get_measurements_for_all_threads(name)
DurFetchAll ==
  /\ \A th \in Threads : Terminated(th)
  /\ FetchForAllThreadsFlag(MainThread, "int", DurName)

NextDur ==
  \/ DurMark
  \/ \E th \in Threads, v \in RegValues : DurRecord(th, v)
  \/ \E th \in Threads : RecordFlag(th)
  \/ \E th \in Threads : RecordStore(th)
  \/ \E th \in Threads : DurFetchOwn(th)
  \/ \E th \in Threads : FetchForThreadCopy(th)
  \/ \E th \in Threads : Terminate(th)
  \/ DurFetchAll
  \/ FetchForAllThreadsCopy(MainThread)

SpecDur == InitReg /\ [][NextDur]_vars

\* C16 (thread durability): the name is marked before anything is recorded,
\* each of the threads records DurRecords values under it, in any
\* interleaving, and terminates.  From then on the storage holds exactly one
\* key per thread, with that thread's values in the order it recorded them,
\* and that is the map get_measurements_for_all_threads(name) returns.
C16_ThreadDurability ==
  (\A th \in Threads : Terminated(th)) =>
    /\ LET held == get_copy_of_measurements_for_all_threads(
                     measurements["int"], DurName)
       IN  /\ DOMAIN held = Threads
           /\ \A th \in Threads :
                /\ Len(held[th]) = DurRecords
                /\ held[th] = RecordedBy("int", DurName, th)
    /\ (result.op = "fetch_for_all_threads") =>
         /\ result.kind = "map"
         /\ DOMAIN result.map = Threads
         /\ \A th \in Threads :
              /\ Len(result.map[th]) = DurRecords
              /\ result.map[th] = RecordedBy("int", DurName, th)

C16_Witness ==
  /\ \A th \in Threads : Terminated(th)
  /\ result.op = "fetch_for_all_threads"
  /\ result.thread = MainThread
  /\ result.kind = "map"
  /\ result.map[1] = <<measurement(0, 1), measurement(0, 2)>>
  /\ result.map[2] = <<measurement(0, 2), measurement(0, 1)>>
  /\ log["int"][DurName][1].thread = 2
  /\ log["int"][DurName][2].thread = 1
  /\ log["int"][DurName][3].thread = 1

\* --------------------------------------- registry: two threads, one name
ConcName == "a"

ConcThreads == {1, 2}

\* Two threads call the registry of one type under one name; the steps of
\* their calls interleave.  Each thread records its own id as the value.
NextConc == \E th \in ConcThreads : RegCalls({th}, {ConcName}, {th})

SpecConc == InitReg /\ [][NextConc]_vars

\* The measurements held under the key (thread_id, name) according to what
\* was stored since the last clear, in the order stored.
StoredUnder(t, name, thread_id) ==
  LET es == SelectSeq(log[t][name], LAMBDA e : e.thread_id = thread_id)
  IN  [i \in 1..Len(es) |-> es[i].m]

\* C22 (atomic clear versus fetch): what a get_measurements,
\* get_measurements_for_thread or get_measurements_for_all_threads call
\* returns, also when another thread clears or records while the call is in
\* progress, is the complete content of the keys it reads at one instant,
\* which lies wholly before or wholly after each clear: every key it reads
\* has all the measurements stored since the last clear, or (after the
\* clear) none; no map has some threads' entries removed and others kept.
C22_AtomicFetch ==
  \A t \in RegTypes, name \in Names :
    (result.type = t /\ result.name = name) =>
      /\ (result.op = "fetch" /\ result.kind = "list") =>
            result.list = StoredUnder(t, name, thread_id_all_threads)
      /\ (result.op = "fetch_for_thread" /\ result.kind = "list") =>
            \E id \in ThreadIds : result.list = StoredUnder(t, name, id)
      /\ (result.op = "fetch_for_all_threads" /\ result.kind = "map") =>
            \A id \in ThreadIds :
              IF id \in DOMAIN result.map
              THEN result.map[id] = StoredUnder(t, name, id)
              ELSE StoredUnder(t, name, id) = <<>>

C22_Witness ==
  /\ result.op = "fetch_for_all_threads"
  /\ result.thread = 1
  /\ result.kind = "map"
  /\ result.cleared_during
  /\ DOMAIN result.map = {2}
  /\ Len(result.map[2]) = 1
  /\ Len(log["int"][ConcName]) = 1

\* The std::vector held under the key, empty when the key is absent.
VecAt(map, thread_id, name) ==
  IF measurement_lookup(thread_id, name) \in DOMAIN map
  THEN map[measurement_lookup(thread_id, name)].vec
  ELSE <<>>

\* C24 (record after the switch): an add_measurement(name, v) call that
\* started when measure_for_each_thread(name) had returned stores its
\* measurement under the key (calling thread's id, name): the store step
\* appends it there and leaves the key (thread_id_all_threads, name) as it
\* was.
C24_RecordAfterSplit ==
  [][\A th \in AllThreads :
       (/\ pc[th] = "record_store"
        /\ pc'[th] = "idle"
        /\ frame[th].started_split) =>
          LET f == frame[th]
          IN  /\ measurement_lookup(th, f.name) \in DOMAIN measurements'[f.type]
              /\ VecAt(measurements'[f.type], th, f.name) =
                   Append(VecAt(measurements[f.type], th, f.name),
                          measurement(f.timestamp, f.value))
              /\ VecAt(measurements'[f.type], thread_id_all_threads, f.name) =
                   VecAt(measurements[f.type], thread_id_all_threads, f.name)
              /\ (measurement_lookup(thread_id_all_threads, f.name)
                     \in DOMAIN measurements'[f.type]) =
                   (measurement_lookup(thread_id_all_threads, f.name)
                     \in DOMAIN measurements[f.type])]_vars

C24_Witness ==
  /\ result.op = "record"
  /\ result.thread = 2
  /\ Len(log["int"][ConcName]) = 2
  /\ log["int"][ConcName][1].thread_id = thread_id_all_threads
  /\ log["int"][ConcName][2].started_split
  /\ log["int"][ConcName][2].thread = 2
  /\ log["int"][ConcName][2].thread_id = 2
  /\ VecAt(measurements["int"], 2, ConcName) = <<measurement(0, 2)>>
  /\ VecAt(measurements["int"], thread_id_all_threads, ConcName) =
       <<measurement(0, 1)>>

\* A measurement stored under the key (thread_id_all_threads, name) when
\* measure_for_each_thread(name) had already returned.
LateAllThreads(e) == e.thread_id = thread_id_all_threads /\ e.split

\* C29 (as stated): once a measure_for_each_thread(name) call has returned,
\* no measurement is appended to the container of
\* (thread_id_all_threads, name) again, whatever add_measurement calls of
\* other threads were in flight when the flag was set.
C29_NoAppendAfterSplit ==
  \A t \in RegTypes, name \in Names :
    \A i \in 1..Len(log[t][name]) : ~LateAllThreads(log[t][name][i])

\* C29 (amended): an add_measurement(name, v) call that starts after
\* measure_for_each_thread(name) has returned never appends to the container
\* of (thread_id_all_threads, name); the only appends made there after the
\* return come from calls that were in flight when the flag was set and had
\* started before it, and every call that started after it stores under
\* its own thread's key.
C29_LateAppendOnlyInFlight ==
  \A t \in RegTypes, name \in Names :
    \A i \in 1..Len(log[t][name]) :
      LET e == log[t][name][i]
      IN  /\ LateAllThreads(e) => ~e.started_split
          /\ e.started_split => (e.split /\ e.thread_id = e.thread)

C29_Witness ==
  /\ Len(log["int"][ConcName]) = 2
  /\ LateAllThreads(log["int"][ConcName][1])
  /\ log["int"][ConcName][1].thread = 1
  /\ ~log["int"][ConcName][1].started_split
  /\ log["int"][ConcName][2].started_split
  /\ log["int"][ConcName][2].thread_id = 2
  /\ VecAt(measurements["int"], thread_id_all_threads, ConcName) =
       <<measurement(0, 1)>>
  /\ VecAt(measurements["int"], 2, ConcName) = <<measurement(0, 2)>>
  /\ IsSplit("int", ConcName)

\* ------------------------------- registry: two recorders and the clock
\* Two threads record under one name that is never marked, DurRecords values
\* each, while the clock moves on and the main thread reads the list; the
\* steps of the calls interleave.
ClockName == "a"

\* The value of the k-th add_measurement call of a thread: no two calls
\* record the same value.
SeqValue(th, k) == (k - 1) * Cardinality(Threads) + th

\* The thread whose call recorded the value.
RecorderOf(v) == CHOOSE th \in Threads : \E k \in 1..DurRecords : v = SeqValue(th, k)

ClockRecord(th) ==
  RecordStartIf(th, "int", ClockName, SeqValue(th, CountBy(th) + 1),
                CountBy(th) < DurRecords)

ClockFetch == FetchFlag(MainThread, "int", ClockName)

NextClock ==
  \/ Tick
  \/ \E th \in Threads : ClockRecord(th)
  \/ \E th \in Threads : RecordFlag(th)
  \/ \E th \in Threads : RecordStore(th)
  \/ ClockFetch
  \/ FetchCopy(MainThread)

SpecClock == InitReg /\ [][NextClock]_vars

\* Every add_measurement call the threads make has returned.
AllRecorded ==
  \A th \in Threads : CountBy(th) = DurRecords /\ pc[th] = "idle"

\* The values of a list of measurements.
ValuesOf(list) == [i \in 1..Len(list) |-> list[i].data]

\* C27 (no lost or duplicated records): the threads record concurrently
\* under one name that is not split.  A get_measurements(name) call made
\* after all add_measurement calls have returned gives a list with exactly
\* one entry per call (as many entries as calls, each recorded value once),
\* and the values of each thread stand in the order the thread recorded
\* them.
C27_NoLostRecords ==
  [][(/\ AllRecorded
      /\ pc[MainThread] = "fetch_copy"
      /\ pc'[MainThread] = "idle") =>
        LET vs == ValuesOf(result'.list)
        IN  /\ result'.op = "fetch"
            /\ result'.kind = "list"
            /\ Len(vs) = Cardinality(Threads) * DurRecords
            /\ \A th \in Threads, k \in 1..DurRecords :
                 Cardinality({i \in 1..Len(vs) : vs[i] = SeqValue(th, k)}) = 1
            /\ \A th \in Threads :
                 SelectSeq(vs, LAMBDA v : RecorderOf(v) = th) =
                   [k \in 1..DurRecords |-> SeqValue(th, k)]]_vars

C27_Witness ==
  /\ AllRecorded
  /\ result.op = "fetch"
  /\ result.kind = "list"
  /\ ValuesOf(result.list) =
       <<SeqValue(2, 1), SeqValue(1, 1), SeqValue(1, 2), SeqValue(2, 2)>>
  /\ log["int"][ClockName][1].thread = 2
  /\ log["int"][ClockName][2].thread = 1

\* C30 (timestamps in stored order): in every state and for every key, the
\* timestamps of the measurements the key's container holds do not decrease
\* in the order stored, also when several threads record concurrently
\* under one name that is not split.
C30_TimestampsNonDecreasing ==
  \A t \in RegTypes :
    \A kv \in DOMAIN measurements[t] :
      LET held == container_to_vector(measurements[t][kv])
      IN  \A i \in 1..Len(held), j \in 1..Len(held) :
            (i < j) => held[i].timestamp <= held[j].timestamp

\* --------------------- registry: clock readings around add_measurement
\* Each thread's function reads the clock, calls add_measurement and reads
\* the clock again, DurRecords times; the clock moves on at any moment and
\* the main thread may mark the name in between, so that calls run in both
\* modes.
StampName == "a"

\* The measurements with this value that the storage holds under the name.
StoredWith(d) ==
  LET map == measurements["int"]
      keys == {kv \in DOMAIN map : kv.name = StampName}
  IN  {m \in UNION {{container_to_vector(map[kv])[i] :
                       i \in 1..Len(container_to_vector(map[kv]))} :
                    kv \in keys} : m.data = d}

\* The thread's add_measurement call of its current round has returned.
CallReturned(th) ==
  /\ pc[th] = "idle"
  /\ \E i \in 1..Len(log["int"][StampName]) :
       /\ log["int"][StampName][i].thread = th
       /\ log["int"][StampName][i].m.data = stamps[th].data

\* auto ts_1 = as::now();
ReadBefore(th) ==
  /\ Idle(th)
  /\ stamps[th].at \in {"none", "after"}
  /\ CountBy(th) < DurRecords
  /\ stamps' = [stamps EXCEPT ![th] =
                  [at |-> "before", before |-> now, after |-> 0,
                   data |-> SeqValue(th, CountBy(th) + 1)]]
  /\ UNCHANGED <<measurements, measured_for_each_thread, now, pc, frame,
                 result, recorded, log, cache_size, cleared_all, locks>>
  /\ UNCHANGED cachevars

\* as::add_measurement<int>(name, value);
StampRecord(th) ==
  /\ stamps[th].at = "before"
  /\ ~CallReturned(th)
  /\ RecordStartIf(th, "int", StampName, stamps[th].data, TRUE)

\* auto ts_2 = as::now();
ReadAfter(th) ==
  /\ stamps[th].at = "before"
  /\ CallReturned(th)
  /\ stamps' = [stamps EXCEPT ![th].at = "after", ![th].after = now]
  /\ UNCHANGED <<measurements, measured_for_each_thread, now, pc, frame,
                 result, recorded, log, cache_size, cleared_all, locks>>
  /\ UNCHANGED cachevars

StampMark ==
  /\ ~IsSplit("int", StampName)
  /\ MarkThreadSplit(MainThread, "int", StampName)

NextStamp ==
  \/ Tick
  \/ StampMark
  \/ \E th \in Threads : ReadBefore(th)
  \/ \E th \in Threads : StampRecord(th)
  \/ \E th \in Threads : RecordFlag(th)
  \/ \E th \in Threads : RecordStore(th)
  \/ \E th \in Threads : ReadAfter(th)

SpecStamp == InitReg /\ [][NextStamp]_vars

\* C31 (timestamp between the caller's readings): the timestamp stored with
\* the measurement of an add_measurement call is not earlier than the clock
\* reading its caller took just before the call and not later than the
\* reading the caller took just after the call returned, for every call and
\* whether the name is measured for each thread or not.
C31_TimestampBracket ==
  \A th \in Threads :
    LET st == stamps[th]
    IN  /\ (st.at = "before" /\ CallReturned(th)) =>
             /\ Cardinality(StoredWith(st.data)) = 1
             /\ \A m \in StoredWith(st.data) :
                  st.before <= m.timestamp /\ m.timestamp <= now
        /\ (st.at = "after") =>
             /\ Cardinality(StoredWith(st.data)) = 1
             /\ \A m \in StoredWith(st.data) :
                  st.before <= m.timestamp /\ m.timestamp <= st.after

C31_Witness ==
  /\ stamps[1].at = "after"
  /\ stamps[2].at = "after"
  /\ stamps[1].data = SeqValue(1, 1)
  /\ stamps[2].data = SeqValue(2, 1)
  /\ VecAt(measurements["int"], thread_id_all_threads, StampName) =
       <<measurement(0, SeqValue(1, 1))>>
  /\ VecAt(measurements["int"], 2, StampName) =
       <<measurement(1, SeqValue(2, 1))>>
  /\ stamps[2].before = 0
  /\ stamps[2].after = 1
  /\ stamps[1].after = 0

\* ------------------------------------------------- registry: the mutexes
\* The registry calls seen as the critical sections they run, with the data
\* left out.  A std::lock_guard is a local of the measurement_storage member
\* function that declares it: the mutex is taken where the guard is
\* constructed and released when that member function returns.
LockOps ==
  {"record", "fetch", "fetch_for_thread", "fetch_for_all_threads", "clear",
   "clear_by_name", "measure_for_each_thread", "is_measured_for_each_thread"}

FetchOps == {"fetch", "fetch_for_thread", "fetch_for_all_threads"}

\* The mutexes a call takes, in the order it takes them: the flag check of
\* add_measurement and of the get_measurements functions, then the storage
\* member function they call.
Sections(op) ==
  IF op \in {"record"} \cup FetchOps
  THEN <<"_measured_for_each_thread_lock", "_measurements_lock">>
  ELSE IF op \in {"clear", "clear_by_name"}
  THEN <<"_measurements_lock">>
  ELSE <<"_measured_for_each_thread_lock">>

guard_held_until_return(op, idx) == idx = Len(Sections(op))

\* The guard of section idx is destroyed at the end of that section.
guard_released(op, idx) == TRUE

Held(th) == {l \in Locks : locks[l] = th}

\* A thread calls op; frame.value counts the sections.
LCall(th, op) ==
  /\ Idle(th)
  /\ Goto(th, "lock", [NoFrame EXCEPT !.op = op, !.type = "int", !.value = 1])
  /\ UNCHANGED <<measurements, measured_for_each_thread, now, recorded, log,
                 cache_size, cleared_all, locks, stamps>>
  /\ UNCHANGED cachevars

\* std::lock_guard<std::mutex> guard{...}: blocks until the mutex is free.
LAcquire(th) ==
  /\ ~crashed
  /\ pc[th] = "lock"
  /\ LET l == Sections(frame[th].op)[frame[th].value]
     IN  /\ locks[l] = 0
         /\ locks' = [locks EXCEPT ![l] = th]
  /\ Goto(th, "locked", frame[th])
  /\ UNCHANGED <<measurements, measured_for_each_thread, now, recorded, log,
                 cache_size, cleared_all, stamps>>
  /\ UNCHANGED cachevars

\* The end of a critical section: the call goes on to its next section, or
\* returns; a get_measurements function may throw after the flag check.
\* What the call returns is left out.
LRelease(th) ==
  /\ ~crashed
  /\ pc[th] = "locked"
  /\ LET f == frame[th]
         l == Sections(f.op)[f.value]
     IN  \E throws \in {FALSE} \cup {f.op \in FetchOps /\ f.value = 1} :
           IF f.value < Len(Sections(f.op)) /\ ~throws
           THEN /\ locks' = IF guard_released(f.op, f.value)
                            THEN [locks EXCEPT ![l] = 0] ELSE locks
                /\ Goto(th, "lock", [f EXCEPT !.value = @ + 1])
           ELSE /\ locks' = [k \in Locks |-> IF locks[k] = th THEN 0
                                             ELSE locks[k]]
                /\ pc' = [pc EXCEPT ![th] = "idle"]
                /\ frame' = [frame EXCEPT ![th] = NoFrame]
                /\ result' = result
  /\ UNCHANGED <<measurements, measured_for_each_thread, now, recorded, log,
                 cache_size, cleared_all, stamps>>
  /\ UNCHANGED cachevars

NextLock ==
  \/ \E th \in AllThreads, op \in LockOps : LCall(th, op)
  \/ \E th \in AllThreads : LAcquire(th)
  \/ \E th \in AllThreads : LRelease(th)

\* Fair scheduling: a thread that keeps finding the mutex free at some time
\* takes it, and a thread inside a critical section leaves it.
SpecLock ==
  /\ InitReg
  /\ [][NextLock]_vars
  /\ \A th \in AllThreads : SF_vars(LAcquire(th)) /\ WF_vars(LRelease(th))

TypeName == "a"

InitTypes == Construct({}, 0) /\ RegInit({"int", "string"})

\* One thread calls the registries of both types under the same name.
NextTypes == RegCalls({1}, {TypeName}, {1})

SpecTypes == InitTypes /\ [][NextTypes]_vars

\* The step belongs to a registry call on type t: the call returns in it, or
\* moves on inside add_measurement or a get_measurements function.
StepOn(t) ==
  \/ result' # result /\ result'.type = t
  \/ \E th \in AllThreads : frame'[th] # frame[th] /\ frame'[th].type = t

\* C21 (independence across types): a step of add_measurement,
\* clear_measurements (with or without a name), measure_for_each_thread or
\* any other call on the registry of one type leaves the stored containers
\* and the flags of the registry of every other type as they were, also for
\* the same name.
C21_TypeIndependence ==
  [][\A t \in RegTypes, u \in RegTypes :
       (StepOn(t) /\ u # t) =>
         /\ measurements'[u] = measurements[u]
         /\ measured_for_each_thread'[u] = measured_for_each_thread[u]]_vars

C21_Witness ==
  /\ result.op = "clear"
  /\ result.type = "int"
  /\ measurements["int"] = EmptyMap
  /\ IsSplit("int", TypeName)
  /\ ~IsSplit("string", TypeName)
  /\ Len(log["string"][TypeName]) = 2
  /\ IsVector("string", TypeName, thread_id_all_threads)
  /\ Len(measurements["string"][measurement_lookup(thread_id_all_threads,
                                                   TypeName)].vec) = 2

\* C25 (is_measured_for_each_thread is read-only): the call returns whether
\* measure_for_each_thread was called on the name, false for every other
\* name, and changes neither the measurement map nor the flag map, the set
\* of names the flag map holds included.
C25_IsThreadSplitReadOnly ==
  [][(result' # result /\ result'.op = "is_measured_for_each_thread") =>
       /\ result'.flag = IsSplit(result'.type, result'.name)
       /\ measurements' = measurements
       /\ measured_for_each_thread' = measured_for_each_thread]_vars

\* The step belongs to a get_measurements, get_measurements_for_thread or
\* get_measurements_for_all_threads call.
FetchStep ==
  \/ result' # result /\ result'.op \in FetchOps
  \/ \E th \in AllThreads :
       frame'[th] # frame[th] /\ frame'[th].op \in FetchOps

\* C28 (retrieval changes nothing stored): no step of a get_measurements,
\* get_measurements_for_thread or get_measurements_for_all_threads call,
\* whether the call returns or throws, changes the measurement map, its set
\* of keys included.
C28_FetchReadOnly ==
  [][FetchStep => measurements' = measurements]_vars

Thresholds == (1..MaxThreshold) \cup {SizeMod - 1}

InitMath ==
  /\ \E threshold \in Thresholds, val \in 0..(SizeMod - 1) :
       /\ val < threshold
       /\ call = Call("val", threshold, val, Ret("value", val, <<>>))
  /\ caches = <<>>
  /\ cap0 = <<>>
  /\ hist = <<>>
  /\ cleared = <<>>
  /\ crashed = FALSE
  /\ iters = [i \in IterIds |-> NoIter]
  /\ RegInit({})

\* math::inc_wrap(val, threshold)
IncWrap ==
  Query("inc_wrap", call.c, call.ret.val,
        {Ret("value", inc_wrap(call.ret.val, call.c), <<>>)})

\* math::dec_wrap(val, threshold)
DecWrap ==
  Query("dec_wrap", call.c, call.ret.val,
        {Ret("value", dec_wrap(call.ret.val, call.c), <<>>)})

NextMath == IncWrap \/ DecWrap

SpecMath == InitMath /\ [][NextMath]_vars

\* C33 (wrap arithmetic): for a threshold >= 1 and a value in
\* [0, threshold), inc_wrap leaves (value + 1) mod threshold and dec_wrap
\* leaves (value - 1) mod threshold; both results are in [0, threshold),
\* and each function undoes the other.
C33_WrapArithmetic ==
  LET threshold == call.c
      old == call.arg
      val == call.ret.val
  IN  /\ threshold >= 1
      /\ 0 <= val /\ val < threshold
      /\ (call.op = "inc_wrap") => val = (old + 1) % threshold
      /\ (call.op = "dec_wrap") => val = (old + threshold - 1) % threshold
      /\ inc_wrap(val, threshold) = (val + 1) % threshold
      /\ dec_wrap(val, threshold) = (val + threshold - 1) % threshold
      /\ dec_wrap(inc_wrap(val, threshold), threshold) = val
      /\ inc_wrap(dec_wrap(val, threshold), threshold) = val

C33_Witness ==
  /\ call.op = "dec_wrap"
  /\ call.c = SizeMod - 1
  /\ call.arg = 0
  /\ call.ret.val = SizeMod - 2

====
